---- MODULE Spec2Model ----
(***************************************************************************)
(* A model of the wikimedia commons image scraper microservice             *)
(* (flask_app.py, and its earlier variant app.py).                         *)
(*                                                                         *)
(* Python strings are sequences of one-character strings, so that          *)
(* str.replace, str.find and slicing are computed character by character.  *)
(* Python's None is the value None below.                                  *)
(***************************************************************************)
EXTENDS Integers, Sequences, FiniteSets

VARIABLES
    variant,            \* which source file serves the request
    pc,                 \* position of the request handler
    word,               \* respond: request.args.get("word", None)
    _word,              \* ImageScraper._word
    _raw_image_urls,    \* ImageScraper._raw_image_urls
    _valid_image_urls,  \* ImageScraper._valid_image_urls
    _synonyms,          \* ImageScraper._synonyms
    _html_data,         \* ImageScraper._html_data (the img elements of the page)
    _wiki_url,          \* ImageScraper._wiki_url
    _synonym_url,       \* ImageScraper._synonym_url
    count,              \* try_synonyms: count
    response,           \* respond: the response dict
    ret,                \* how respond ended: "json", "None" or the exception raised
    syn_error,          \* retrieve_synonyms: the except branch was taken
    net,                \* the requests.get calls issued by this request, in order
    syn_response,       \* retrieve_synonyms: the parsed response while the call runs
    other,              \* the handler state of a second request in flight
    environ             \* os.environ: the value of "api_key", None when it is not set

vars == <<variant, pc, word, _word, _raw_image_urls, _valid_image_urls, _synonyms,
          _html_data, _wiki_url, _synonym_url, count, response, ret, syn_error, net,
          syn_response, other, environ>>

----------------------------------------------------------------------------
(* Bounds of the model *)

\* number of tokens a generated RawLink is built from
MaxTokens == 5
\* number of img elements on a category page
MaxImgs == 2
\* number of word types (categories) in a thesaurus response
MaxCats == 2

----------------------------------------------------------------------------
(* String constants of the program *)

None == <<"<None>">>

WIKI_PREFIX == <<"h", "t", "t", "p", "s", ":", "/", "/", "c", "o", "m", "m", "o", "n", "s", ".", "w", "i", "k", "i", "m", "e", "d", "i", "a", ".", "o", "r", "g", "/", "w", "i", "k", "i", "/", "C", "a", "t", "e", "g", "o", "r", "y", ":">>

SYNONYM_PREFIX == <<"h", "t", "t", "p", "s", ":", "/", "/", "w", "o", "r", "d", "s", ".", "b", "i", "g", "h", "u", "g", "e", "l", "a", "b", "s", ".", "c", "o", "m", "/", "a", "p", "i", "/", "2", "/">>

JSON_SUFFIX == <<"/", "j", "s", "o", "n">>

\* the thesaurus credential, with its trailing "/" (flask_app.py: the value of
\* os.environ["api_key"] when it is set; app.py: config.api_key)
api_key == <<"K", "E", "Y", "/">>

ERROR == <<"E", "R", "R", "O", "R">>

ERROR_TRY_AGAIN == <<"E", "R", "R", "O", "R", " ", "t", "r", "y", " ", "a", "g", "a", "i", "n", ".">>

THUMB == <<"t", "h", "u", "m", "b", "/">>

HTTP == <<"h", "t", "t", "p">>

SLASH == <<"/">>

_image_exts == << <<".", "j", "p", "g">>, <<".", "p", "n", "g">> >>

----------------------------------------------------------------------------
(* Python string operations *)

Min(S) == CHOOSE m \in S : \A n \in S : m <= n

\* sub occurs in s at the 0-based index k
MatchAt(s, sub, k) ==
    /\ k >= 0
    /\ k + Len(sub) <= Len(s)
    /\ \A j \in 1..Len(sub) : s[k + j] = sub[j]

\* s.find(sub, start): the lowest index >= start where sub occurs, else -1
Find(s, sub, start) ==
    LET C == {k \in start..(Len(s) - Len(sub)) : MatchAt(s, sub, k)}
    IN  IF C = {} THEN -1 ELSE Min(C)

\* s[a:b], with Python's treatment of negative and out-of-range indices
Slice(s, a, b) ==
    LET n  == Len(s)
        lo == IF a < 0 THEN (IF n + a < 0 THEN 0 ELSE n + a) ELSE (IF a > n THEN n ELSE a)
        hi == IF b < 0 THEN (IF n + b < 0 THEN 0 ELSE n + b) ELSE (IF b > n THEN n ELSE b)
    IN  SubSeq(s, lo + 1, hi)

RECURSIVE ReplaceFrom(_, _, _, _)
\* the part of s.replace(old, new) produced from index k on: every
\* non-overlapping occurrence of old, left to right, becomes new
ReplaceFrom(s, old, new, k) ==
    LET i == Find(s, old, k)
    IN  IF i = -1
        THEN SubSeq(s, k + 1, Len(s))
        ELSE SubSeq(s, k + 1, i) \o new \o ReplaceFrom(s, old, new, i + Len(old))

\* a replace that stops after the first occurrence (str.replace(old, new, 1))
ReplaceFirstOnly(s, old, new) ==
    LET i == Find(s, old, 0)
    IN  IF i = -1 THEN s
        ELSE SubSeq(s, 1, i) \o new \o SubSeq(s, i + Len(old) + 1, Len(s))

\* s.replace(old, new)
Replace(s, old, new) == ReplaceFrom(s, old, new, 0)

\* bool(w) of a str-or-None
Truthy(w) == w # None /\ w # <<>>

----------------------------------------------------------------------------
(* URL Normalizer: ImageScraper.valid_image_urls *)

\* temp = raw_url.replace("thumb/", "")
Temp(raw_url) == Replace(raw_url, THUMB, <<>>)

\* the loop body without the upper bound on i ("if -1 < i")
ExtEntryAnyPosition(temp, ext) ==
    LET i == Find(temp, ext, 0)
    IN  IF -1 < i
        THEN LET p == Find(temp, SLASH, i) IN << Slice(temp, 0, p) >>
        ELSE << >>

\* the body of "for ext in self._image_exts" for one ext: what it appends
ExtEntry(temp, ext) ==
    LET i == Find(temp, ext, 0)
    IN  IF -1 < i /\ i < Len(temp) - 5
        THEN LET p == Find(temp, SLASH, i) IN << Slice(temp, 0, p) >>
        ELSE << >>

RECURSIVE ExtEntries(_, _)
\* the whole "for ext in self._image_exts" loop, from the k-th extension on
ExtEntries(temp, k) ==
    IF k > Len(_image_exts) THEN << >>
    ELSE ExtEntry(temp, _image_exts[k]) \o ExtEntries(temp, k + 1)

\* the body of "for raw_url in self._raw_image_urls" for one raw_url
NormalizeOne(raw_url) ==
    LET temp == Temp(raw_url)
    IN  IF Slice(temp, 0, 4) = HTTP THEN ExtEntries(temp, 1) ELSE << >>

RECURSIVE NormalizeFrom(_, _)
NormalizeFrom(raws, k) ==
    IF k > Len(raws) THEN << >>
    ELSE NormalizeOne(raws[k]) \o NormalizeFrom(raws, k + 1)

\* valid_image_urls(): appends to the list it is given, from every raw url
ValidImageUrls(valid, raws) == valid \o NormalizeFrom(raws, 1)

----------------------------------------------------------------------------
(* The outside world: request words, category pages, thesaurus responses *)

AUTO == <<"a", "u", "t", "o">>

CAR == <<"c", "a", "r">>

VAN == <<"v", "a", "n">>

BUS == <<"b", "u", "s">>

\* what request.args.get("word", None) can give
RequestWords == {None, <<>>, AUTO}

\* a commons thumbnail reference, and a site-relative reference
THUMB_JPG == <<"h", "t", "t", "p", "s", ":", "/", "/", "u", "/", "t", "h", "u", "m", "b", "/", "a", ".", "j", "p", "g", "/", "2", "-", "a", ".", "j", "p", "g">>

STATIC_PNG == <<"/", "s", "t", "a", "t", "i", "c", "/", "x", ".", "p", "n", "g">>

\* an img element, with or without a src attribute
ImgElems == {[has_src |-> TRUE, src |-> THUMB_JPG],
             [has_src |-> TRUE, src |-> STATIC_PNG],
             [has_src |-> FALSE, src |-> <<>>]}

SeqsUpTo(S, n) == UNION {[1..m -> S] : m \in 0..n}

\* soup.find_all('img') of the fetched page, or a requests.get that raised
PageOutcomes ==
    {[ok |-> FALSE, imgs |-> <<>>]} \cup
    {[ok |-> TRUE, imgs |-> p] : p \in SeqsUpTo(ImgElems, MaxImgs)}

\* the value of one word type of the thesaurus response: {"syn": [...], "ant": [...]},
\* either key possibly absent
CatValues == {[has_syn |-> TRUE,  syn |-> <<CAR>>,      has_ant |-> FALSE, ant |-> <<>>],
              [has_syn |-> TRUE,  syn |-> <<CAR, VAN>>, has_ant |-> FALSE, ant |-> <<>>],
              [has_syn |-> TRUE,  syn |-> <<VAN>>,      has_ant |-> TRUE,  ant |-> <<BUS>>],
              [has_syn |-> TRUE,  syn |-> <<>>,         has_ant |-> FALSE, ant |-> <<>>],
              [has_syn |-> FALSE, syn |-> <<>>,         has_ant |-> TRUE,  ant |-> <<BUS>>]}

\* requests.get(...).json(): the word types in the order of the response, or a
\* call that raised (transport failure, body that is not JSON)
SynonymOutcomes ==
    {[ok |-> FALSE, cats |-> <<>>]} \cup
    {[ok |-> TRUE, cats |-> c] : c \in SeqsUpTo(CatValues, MaxCats)}

----------------------------------------------------------------------------
(* ImageScraper *)

\* the category url written as the constructor writes its placeholder
WikiUrlWithSuffix(w) == WIKI_PREFIX \o w \o JSON_SUFFIX

\* set_wiki_url: the category url of a word
WikiUrl(w) == WIKI_PREFIX \o w

\* set_synonym_url: the thesaurus url of a word
SynonymUrl(w) ==
    SYNONYM_PREFIX \o (IF variant = "flask_app" THEN environ ELSE api_key) \o w \o JSON_SUFFIX

RECURSIVE RawFrom(_, _)
\* raw_image_urls(): the loop over the img elements from the k-th on;
\* url['src'] raises KeyError at an element without src
RawFrom(imgs, k) ==
    IF k > Len(imgs) THEN [urls |-> << >>, err |-> FALSE]
    ELSE IF ~imgs[k].has_src THEN [urls |-> << >>, err |-> TRUE]
    ELSE LET r == RawFrom(imgs, k + 1)
         IN  [urls |-> <<imgs[k].src>> \o r.urls, err |-> r.err]

RawImageUrls(raws, imgs) ==
    LET r == RawFrom(imgs, 1) IN [urls |-> raws \o r.urls, err |-> r.err]

RECURSIVE SynFrom(_, _)
\* retrieve_synonyms: the loop over the word types from the k-th on;
\* response[word_type]['syn'] raises KeyError when the key is absent
SynFrom(cats, k) ==
    IF k > Len(cats) THEN [syns |-> << >>, err |-> FALSE]
    ELSE IF ~cats[k].has_syn THEN [syns |-> << >>, err |-> TRUE]
    ELSE LET r == SynFrom(cats, k + 1)
         IN  [syns |-> cats[k].syn \o r.syns, err |-> r.err]

\* retrieve_synonyms: the try block and its bare except
RetrieveSynonyms(syns, o) ==
    IF ~o.ok THEN [syns |-> syns, err |-> TRUE]
    ELSE LET r == SynFrom(o.cats, 1) IN [syns |-> syns \o r.syns, err |-> r.err]

\* check_valid_image_urls with the result ignored
AlwaysTrySynonyms(valid) == FALSE

\* check_valid_image_urls
CheckValidImageUrls(valid) == valid # << >>

\* a loop that goes on after an image was found
LoopIgnoresResult(valid, cnt, syns) == cnt < Len(syns)

\* try_synonyms: the while condition
LoopContinues(valid, cnt, syns) == valid = << >> /\ cnt < Len(syns)

\* a try_synonyms that reports success whatever the loop did
ReturnAlwaysTrue(cnt, syns) == TRUE

\* try_synonyms: the value returned after the loop
TrySynonymsReturn(cnt, syns) == IF cnt >= Len(syns) THEN FALSE ELSE TRUE

\* image_scraper(w) after set_word: retrieve_page_data, raw_image_urls,
\* valid_image_urls; exc names the exception that escapes, "" for none
ImageScraperRun(o, html, raws, valid) ==
    IF ~o.ok
    THEN [exc |-> "ConnectionError", html |-> html, raws |-> raws, valid |-> valid]
    ELSE LET r == RawImageUrls(raws, o.imgs)
         IN  IF r.err
             THEN [exc |-> "KeyError", html |-> o.imgs, raws |-> r.urls, valid |-> valid]
             ELSE [exc |-> "", html |-> o.imgs, raws |-> r.urls,
                   valid |-> ValidImageUrls(valid, r.urls)]

----------------------------------------------------------------------------
(* The request handler: respond *)

Variants == {"flask_app", "app"}

\* ImageScraper.__init__ : the fields of a fresh scraper
FreshScraper ==
    /\ _word' = << >>
    /\ _raw_image_urls' = << >>
    /\ _valid_image_urls' = << >>
    /\ _synonyms' = << >>
    /\ _html_data' = << >>
    /\ _wiki_url' = WIKI_PREFIX \o << >> \o JSON_SUFFIX
    /\ _synonym_url' = << >>

\* no thesaurus response at hand
NoResponse == [ok |-> FALSE, cats |-> << >>]

\* the handler state of a request slot that serves no request
IdleRequest ==
    [pc |-> "idle", word |-> None, _word |-> << >>, _raw_image_urls |-> << >>,
     _valid_image_urls |-> << >>, _synonyms |-> << >>, _html_data |-> << >>,
     _wiki_url |-> WIKI_PREFIX \o << >> \o JSON_SUFFIX, _synonym_url |-> << >>,
     count |-> 0, response |-> [IMAGE_URL |-> None, ERROR |-> None], ret |-> "",
     syn_error |-> FALSE, net |-> << >>]

\* the source file that is deployed and its environment: flask_app.py reads
\* os.environ["api_key"], set or not; app.py reads config.api_key, never os.environ
Deployments ==
    {<<"flask_app", api_key>>, <<"flask_app", None>>, <<"app", api_key>>}

Init ==
    /\ \E d \in Deployments : variant = d[1] /\ environ = d[2]
    /\ pc = "idle"
    /\ word = None
    /\ _word = << >>
    /\ _raw_image_urls = << >>
    /\ _valid_image_urls = << >>
    /\ _synonyms = << >>
    /\ _html_data = << >>
    /\ _wiki_url = WIKI_PREFIX \o << >> \o JSON_SUFFIX
    /\ _synonym_url = << >>
    /\ count = 0
    /\ response = [IMAGE_URL |-> None, ERROR |-> None]
    /\ ret = ""
    /\ syn_error = FALSE
    /\ net = << >>
    /\ syn_response = NoResponse
    /\ other = IdleRequest

\* a requests.get as this request issues it: what is fetched, for which working
\* word, and how many urls _valid_image_urls holds at that moment
Get(kind, url, w) ==
    [kind |-> kind, url |-> url, word |-> w, nvalid |-> Len(_valid_image_urls)]

\* respond, when try_synonyms returned False
\* (flask_app: return jsonify(response); app: response["ERROR"] = ..., return)
NoResults ==
    /\ pc' = "done"
    /\ IF variant = "flask_app"
       THEN ret' = "json" /\ response' = response
       ELSE ret' = "None" /\ response' = [response EXCEPT !.ERROR = ERROR_TRY_AGAIN]

\* try_synonyms after its loop, and respond after try_synonyms
AfterLoop(cnt, syns) ==
    IF TrySynonymsReturn(cnt, syns)
    THEN pc' = "select" /\ ret' = ret /\ response' = response
    ELSE NoResults

\* respond, from the request to the first fetch
Respond(w) ==
    /\ pc = "idle"
    /\ word' = w
    /\ FreshScraper
    /\ count' = 0
    /\ syn_error' = FALSE
    /\ net' = << >>
    /\ IF variant = "flask_app"
       THEN /\ response' = [IMAGE_URL |-> ERROR, ERROR |-> None]
            /\ IF ~Truthy(w)
               THEN pc' = "done" /\ ret' = "json"
               ELSE pc' = "primary" /\ ret' = ""
       ELSE /\ response' = [IMAGE_URL |-> None,
                            ERROR |-> IF ~Truthy(w) THEN ERROR_TRY_AGAIN ELSE None]
            /\ pc' = "primary" /\ ret' = ""
    /\ UNCHANGED variant
    /\ UNCHANGED <<syn_response, other, environ>>

\* the attempt on the caller's word up to its network call: set_word, and
\* retrieve_page_data as far as the requests.get it issues
CallPrimary ==
    /\ pc = "primary"
    /\ _word' = word
    /\ IF word = None
       THEN \* set_wiki_url: str + None raises TypeError
            /\ pc' = "done" /\ ret' = "TypeError"
            /\ UNCHANGED <<_wiki_url, net>>
       ELSE /\ _wiki_url' = WikiUrl(word)
            /\ net' = Append(net, Get("wiki", _wiki_url', _word'))
            /\ pc' = "primary_get" /\ ret' = ret
    /\ UNCHANGED <<variant, word, _html_data, _raw_image_urls, _valid_image_urls,
                   _synonyms, _synonym_url, count, response, syn_error>>
    /\ UNCHANGED <<syn_response, other, environ>>

\* the attempt on the caller's word from the answer of requests.get on:
\* retrieve_page_data, raw_image_urls, valid_image_urls, then
\* check_valid_image_urls
FetchPrimary(o) ==
    /\ pc = "primary_get"
    /\ LET r == ImageScraperRun(o, _html_data, _raw_image_urls, _valid_image_urls)
       IN  /\ _html_data' = r.html
           /\ _raw_image_urls' = r.raws
           /\ _valid_image_urls' = r.valid
           /\ IF r.exc # ""
              THEN pc' = "done" /\ ret' = r.exc
              ELSE /\ ret' = ret
                   /\ pc' = IF CheckValidImageUrls(r.valid) THEN "select" ELSE "synonyms"
    /\ UNCHANGED <<variant, word, _word, _wiki_url, net, _synonyms, _synonym_url, count,
                   response, syn_error>>
    /\ UNCHANGED <<syn_response, other, environ>>

\* try_synonyms up to the network call of retrieve_synonyms: set_synonym_url
\* (flask_app.py: os.environ["api_key"] raises KeyError when the variable is not
\* set, before the try block) and the requests.get it issues
CallSynonym ==
    /\ pc = "synonyms"
    /\ IF variant = "flask_app" /\ environ = None
       THEN /\ pc' = "done" /\ ret' = "KeyError"
            /\ UNCHANGED <<_synonym_url, net>>
       ELSE /\ _synonym_url' = SynonymUrl(_word)
            /\ net' = Append(net, Get("syn", _synonym_url', _word))
            /\ pc' = "synonyms_get" /\ ret' = ret
    /\ UNCHANGED <<variant, word, _word, _wiki_url, _html_data, _raw_image_urls,
                   _valid_image_urls, _synonyms, count, response, syn_error>>
    /\ UNCHANGED <<syn_response, other, environ>>

\* try_synonyms from the answer of the thesaurus up to its loop: the rest of
\* retrieve_synonyms and the empty-list return
FetchSynonym(o) ==
    /\ pc = "synonyms_get"
    /\ LET r == RetrieveSynonyms(_synonyms, o)
       IN  /\ _synonyms' = r.syns
           /\ syn_error' = r.err
           /\ IF r.syns = << >>
              THEN NoResults
              ELSE IF LoopContinues(_valid_image_urls, 0, r.syns)
                   THEN pc' = "loop" /\ ret' = ret /\ response' = response
                   ELSE AfterLoop(0, r.syns)
    /\ count' = 0
    /\ UNCHANGED <<variant, word, _word, _wiki_url, _synonym_url, net, _html_data,
                   _raw_image_urls, _valid_image_urls>>
    /\ UNCHANGED <<syn_response, other, environ>>

\* one pass of the while loop of try_synonyms up to its network call: the
\* working word becomes the next synonym, set_word, and the requests.get of
\* retrieve_page_data is issued
CallTrySynonym ==
    /\ pc = "loop"
    /\ pc' = "loop_get"
    /\ _word' = _synonyms[count + 1]
    /\ _wiki_url' = WikiUrl(_synonyms[count + 1])
    /\ net' = Append(net, Get("wiki", _wiki_url', _word'))
    /\ UNCHANGED <<variant, word, _html_data, _raw_image_urls, _valid_image_urls,
                   _synonyms, _synonym_url, count, response, ret, syn_error>>
    /\ UNCHANGED <<syn_response, other, environ>>

\* the pass from the answer of requests.get on: the page is read, count is
\* incremented, then the while condition again
TrySynonym(o) ==
    /\ pc = "loop_get"
    /\ LET r == ImageScraperRun(o, _html_data, _raw_image_urls, _valid_image_urls)
       IN  /\ _html_data' = r.html
           /\ _raw_image_urls' = r.raws
           /\ _valid_image_urls' = r.valid
           /\ IF r.exc # ""
              THEN pc' = "done" /\ ret' = r.exc /\ count' = count /\ response' = response
              ELSE /\ count' = count + 1
                   /\ IF LoopContinues(r.valid, count + 1, _synonyms)
                      THEN pc' = "loop" /\ ret' = ret /\ response' = response
                      ELSE AfterLoop(count + 1, _synonyms)
    /\ UNCHANGED <<variant, word, _word, _wiki_url, net, _synonyms, _synonym_url, syn_error>>
    /\ UNCHANGED <<syn_response, other, environ>>

\* get_random_valid_image and the end of respond; random.randint(0, -1) raises
\* ValueError
Select ==
    /\ pc = "select"
    /\ pc' = "done"
    /\ IF _valid_image_urls = << >>
       THEN ret' = "ValueError" /\ response' = response
       ELSE \E i \in 0..(Len(_valid_image_urls) - 1) :
               LET image_url == _valid_image_urls[i + 1]
               IN  /\ ret' = "json"
                   /\ response' = IF variant = "flask_app" /\ image_url = << >>
                                  THEN response
                                  ELSE [response EXCEPT !.IMAGE_URL = image_url]
    /\ UNCHANGED <<variant, word, _word, _raw_image_urls, _valid_image_urls, _synonyms,
                   _html_data, _wiki_url, _synonym_url, count, syn_error, net>>
    /\ UNCHANGED <<syn_response, other, environ>>

\* the response is sent and the request's objects are dropped
Finish ==
    /\ pc = "done"
    /\ pc' = "idle"
    /\ word' = None
    /\ FreshScraper
    /\ count' = 0
    /\ response' = [IMAGE_URL |-> None, ERROR |-> None]
    /\ ret' = ""
    /\ syn_error' = FALSE
    /\ net' = << >>
    /\ UNCHANGED variant
    /\ UNCHANGED <<syn_response, other, environ>>

Next ==
    \/ \E w \in RequestWords : Respond(w)
    \/ CallPrimary
    \/ \E o \in PageOutcomes : FetchPrimary(o)
    \/ CallSynonym
    \/ \E o \in SynonymOutcomes : FetchSynonym(o)
    \/ CallTrySynonym
    \/ \E o \in PageOutcomes : TrySynonym(o)
    \/ Select
    \/ Finish

Spec == Init /\ [][Next]_vars

----------------------------------------------------------------------------
(* The Normalizer on its own: valid_image_urls over generated RawLinks *)

\* the pieces RawLinks are put together from: a scheme and host, the letters
\* http with no "://" after them, the thumb/ segment, a .jpg and a .png file
\* name, a path continuation, a plain letter
Tokens == { <<"h", "t", "t", "p", ":", "/", "/", "u", "/">>, <<"h", "t", "t", "p">>, THUMB,
            <<"a">> \o _image_exts[1], <<"b">> \o _image_exts[2],
            <<"/", "2">>, <<"c">> }

RECURSIVE Flatten(_, _)
Flatten(ts, k) == IF k > Len(ts) THEN << >> ELSE ts[k] \o Flatten(ts, k + 1)

RawLinks == {Flatten(ts, 1) : ts \in SeqsUpTo(Tokens, MaxTokens)}

NormInit ==
    /\ variant = "flask_app"
    /\ environ = api_key
    /\ pc = "norm"
    /\ word = None
    /\ _word = << >>
    /\ _raw_image_urls \in {<<l>> : l \in RawLinks}
    /\ _valid_image_urls = << >>
    /\ _synonyms = << >>
    /\ _html_data = << >>
    /\ _wiki_url = WIKI_PREFIX \o << >> \o JSON_SUFFIX
    /\ _synonym_url = << >>
    /\ count = 0
    /\ response = [IMAGE_URL |-> None, ERROR |-> None]
    /\ ret = ""
    /\ syn_error = FALSE
    /\ net = << >>
    /\ syn_response = NoResponse
    /\ other = IdleRequest

\* scraper.valid_image_urls()
Normalize ==
    /\ pc = "norm"
    /\ pc' = "normed"
    /\ _valid_image_urls' = ValidImageUrls(_valid_image_urls, _raw_image_urls)
    /\ UNCHANGED <<variant, word, _word, _raw_image_urls, _synonyms, _html_data,
                   _wiki_url, _synonym_url, count, response, ret, syn_error, net>>
    /\ UNCHANGED <<syn_response, other, environ>>

\* valid_image_urls() of a second, fresh scraper whose RawLink list is the
\* ResultSet the first one produced
Renormalize ==
    /\ pc = "normed"
    /\ pc' = "renormed"
    /\ _raw_image_urls' = _valid_image_urls
    /\ _valid_image_urls' = ValidImageUrls(<< >>, _valid_image_urls)
    /\ UNCHANGED <<variant, word, _word, _synonyms, _html_data,
                   _wiki_url, _synonym_url, count, response, ret, syn_error, net>>
    /\ UNCHANGED <<syn_response, other, environ>>

NormNext == Normalize \/ Renormalize

NormSpec == NormInit /\ [][NormNext]_vars

----------------------------------------------------------------------------
(* The Synonym Resolver on its own: retrieve_synonyms of a fresh scraper whose
   word is set, for every thesaurus response of the model *)

SynInit ==
    /\ \E d \in Deployments : variant = d[1] /\ environ = d[2]
    /\ pc = "synonyms"
    /\ word = AUTO
    /\ _word = AUTO
    /\ _raw_image_urls = << >>
    /\ _valid_image_urls = << >>
    /\ _synonyms = << >>
    /\ _html_data = << >>
    /\ _wiki_url = WikiUrl(AUTO)
    /\ _synonym_url = << >>
    /\ count = 0
    /\ response = [IMAGE_URL |-> None, ERROR |-> None]
    /\ ret = ""
    /\ syn_error = FALSE
    /\ net = << >>
    /\ syn_response \in SynonymOutcomes
    /\ other = IdleRequest

\* scraper.retrieve_synonyms() from the answer of the thesaurus on, the
\* answer being syn_response
Synonyms ==
    /\ pc = "synonyms_get"
    /\ pc' = "synned"
    /\ LET r == RetrieveSynonyms(_synonyms, syn_response)
       IN  /\ _synonyms' = r.syns
           /\ syn_error' = r.err
    /\ UNCHANGED <<variant, word, _word, _raw_image_urls, _valid_image_urls, _html_data,
                   _wiki_url, _synonym_url, count, response, ret, net>>
    /\ UNCHANGED <<syn_response, other, environ>>

SynNext == CallSynonym \/ Synonyms

SynSpec == SynInit /\ [][SynNext]_vars

----------------------------------------------------------------------------
(* app.py without flask: retrieve_word, the method that reads the word from
   the terminal. No route calls it; the command-line loop that did is commented
   out in app.py, so it is no step of a request and stands in a specification
   of its own. *)

QUIT == <<"q">>

\* what input() can return
TypedWords == {QUIT, << >>, AUTO, CAR}

CliInit ==
    /\ variant = "app"
    /\ environ = api_key
    /\ pc = "cli"
    /\ word = None
    /\ _word = << >>
    /\ _raw_image_urls = << >>
    /\ _valid_image_urls = << >>
    /\ _synonyms = << >>
    /\ _html_data = << >>
    /\ _wiki_url = WIKI_PREFIX \o << >> \o JSON_SUFFIX
    /\ _synonym_url = << >>
    /\ count = 0
    /\ response = [IMAGE_URL |-> None, ERROR |-> None]
    /\ ret = ""
    /\ syn_error = FALSE
    /\ net = << >>
    /\ syn_response = NoResponse
    /\ other = IdleRequest

\* scraper.retrieve_word(): "q" ends the process through exit(), any other
\* line is given to set_word
retrieve_word(typed) ==
    /\ pc = "cli"
    /\ word' = typed
    /\ IF typed = QUIT
       THEN pc' = "exited" /\ ret' = "SystemExit" /\ UNCHANGED <<_word, _wiki_url>>
       ELSE pc' = "word_set" /\ ret' = ret /\ _word' = typed /\ _wiki_url' = WikiUrl(typed)
    /\ UNCHANGED <<variant, _raw_image_urls, _valid_image_urls, _synonyms, _html_data,
                   _synonym_url, count, response, syn_error, net>>
    /\ UNCHANGED <<syn_response, other, environ>>

CliNext == \E typed \in TypedWords : retrieve_word(typed)

CliSpec == CliInit /\ [][CliNext]_vars

----------------------------------------------------------------------------
(* Two requests in flight: the server handles a second request while the first
   is between two of its steps. Each call of respond has its own locals and
   its own ImageScraper(); the module holds no other mutable object. The web
   answers by url here, so that a request's outcome is determined by its word. *)

THUMB_PNG == <<"h", "t", "t", "p", "s", ":", "/", "/", "u", "/", "t", "h", "u", "m", "b", "/", "b", ".", "p", "n", "g", "/", "2", "-", "b", ".", "p", "n", "g">>

ConcWords == {AUTO, CAR, VAN, BUS}

\* the category page behind a url
ConcPage(url) ==
    [ok |-> TRUE,
     imgs |-> IF url = WikiUrl(AUTO) THEN << [has_src |-> TRUE, src |-> STATIC_PNG] >>
              ELSE IF url = WikiUrl(CAR) THEN << [has_src |-> TRUE, src |-> THUMB_JPG] >>
              ELSE IF url = WikiUrl(VAN) THEN << [has_src |-> TRUE, src |-> THUMB_PNG] >>
              ELSE << >>]

\* the thesaurus response behind a url
ConcThesaurus(url) ==
    [ok |-> TRUE,
     cats |-> IF url = SynonymUrl(AUTO)
              THEN << [has_syn |-> TRUE, syn |-> <<CAR, VAN>>, has_ant |-> FALSE, ant |-> << >>] >>
              ELSE << >>]

\* the locals of the call of respond that is running, and its scraper
LocalState ==
    [pc |-> pc, word |-> word, _word |-> _word, _raw_image_urls |-> _raw_image_urls,
     _valid_image_urls |-> _valid_image_urls, _synonyms |-> _synonyms,
     _html_data |-> _html_data, _wiki_url |-> _wiki_url, _synonym_url |-> _synonym_url,
     count |-> count, response |-> response, ret |-> ret, syn_error |-> syn_error,
     net |-> net]

\* a switch between two calls whose scrapers hold one and the same
\* _raw_image_urls list (a list that is not created per instance)
SwitchSharingRawLinks ==
    /\ other' = LocalState
    /\ pc' = other.pc
    /\ word' = other.word
    /\ _word' = other._word
    /\ _raw_image_urls' = _raw_image_urls
    /\ _valid_image_urls' = other._valid_image_urls
    /\ _synonyms' = other._synonyms
    /\ _html_data' = other._html_data
    /\ _wiki_url' = other._wiki_url
    /\ _synonym_url' = other._synonym_url
    /\ count' = other.count
    /\ response' = other.response
    /\ ret' = other.ret
    /\ syn_error' = other.syn_error
    /\ net' = other.net
    /\ UNCHANGED <<variant, syn_response, environ>>

\* the server goes on with the other call of respond: every local and every
\* field of the scraper is that call's own
Switch ==
    /\ other' = LocalState
    /\ pc' = other.pc
    /\ word' = other.word
    /\ _word' = other._word
    /\ _raw_image_urls' = other._raw_image_urls
    /\ _valid_image_urls' = other._valid_image_urls
    /\ _synonyms' = other._synonyms
    /\ _html_data' = other._html_data
    /\ _wiki_url' = other._wiki_url
    /\ _synonym_url' = other._synonym_url
    /\ count' = other.count
    /\ response' = other.response
    /\ ret' = other.ret
    /\ syn_error' = other.syn_error
    /\ net' = other.net
    /\ UNCHANGED <<variant, syn_response, environ>>

ConcNext ==
    \/ \E w \in ConcWords : Respond(w)
    \/ CallPrimary
    \/ FetchPrimary(ConcPage(_wiki_url))
    \/ CallSynonym
    \/ FetchSynonym(ConcThesaurus(_synonym_url))
    \/ CallTrySynonym
    \/ TrySynonym(ConcPage(_wiki_url))
    \/ Select
    \/ Finish
    \/ Switch

ConcSpec == Init /\ [][ConcNext]_vars

----------------------------------------------------------------------------
(* Vocabulary of the claims *)

Range(s) == {s[k] : k \in 1..Len(s)}

\* the handler ended by returning (a response or nothing), not by an exception
Returned == pc = "done" /\ ret \in {"json", "None"}

\* the response of a request that supplied no word (flask_app.py: respond)
Sentinel == [IMAGE_URL |-> ERROR, ERROR |-> None]

\* the caller received an image url of the ResultSet
GotImageUrl ==
    /\ ret = "json"
    /\ response.ERROR = None
    /\ response.IMAGE_URL \in Range(_valid_image_urls)

RECURSIVE StripAll(_, _)
\* s without sub, read character by character: wherever sub starts it is skipped
StripAll(s, sub) ==
    IF s = << >> THEN << >>
    ELSE IF Len(sub) <= Len(s) /\ SubSeq(s, 1, Len(sub)) = sub
         THEN StripAll(SubSeq(s, Len(sub) + 1, Len(s)), sub)
         ELSE <<Head(s)>> \o StripAll(Tail(s), sub)

\* the 0-based positions at which sub occurs in s
Occurrences(s, sub) ==
    {k \in 0..Len(s) : k + Len(sub) <= Len(s) /\ SubSeq(s, k + 1, k + Len(sub)) = sub}

\* the lowest member of S that is >= k, or -1
FirstFrom(S, k) ==
    IF {x \in S : x >= k} = {} THEN -1
    ELSE CHOOSE m \in {x \in S : x >= k} : \A n \in {x \in S : x >= k} : m <= n

\* What the Normalizer is said to emit for the thumb-stripped string t and the
\* extension ext: t cut at the first "/" at or after the end of the first
\* occurrence of ext; defined when that occurrence starts before Len(t) - 5 and
\* such a "/" exists.
ExtStart(t, ext) == FirstFrom(Occurrences(t, ext), 0)

CutPoint(t, ext) == FirstFrom(Occurrences(t, SLASH), ExtStart(t, ext) + Len(ext))

Covered(t, ext) ==
    /\ ExtStart(t, ext) >= 0
    /\ ExtStart(t, ext) < Len(t) - 5
    /\ CutPoint(t, ext) >= 0

Expected(t, ext) == SubSeq(t, 1, CutPoint(t, ext))

HTTP_SCHEME == <<"h", "t", "t", "p", ":", "/", "/">>

\* raw begins with an HTTP(S) scheme and contains thumb/
ThumbLink(raw) ==
    /\ Len(raw) >= Len(HTTP_SCHEME)
    /\ SubSeq(raw, 1, Len(HTTP_SCHEME)) = HTTP_SCHEME
    /\ Occurrences(raw, THUMB) # {}

----------------------------------------------------------------------------
(* Claims *)

\* C1: when the primary word gave nothing and some synonym (at any position of
\* the SynonymList, the last one included) made the ResultSet non-empty, the
\* request ends with an image url for the caller; it ends without one only if
\* every attempt yielded nothing.
C1_SuccessfulSynonymResolves ==
    (Returned /\ _synonyms # << >> /\ _valid_image_urls # << >>) => GotImageUrl

\* C2: in synonym fallback the k-th category page fetched is that of the k-th
\* synonym of the SynonymList (no skip, no repeat), and no category page is
\* fetched once the ResultSet is non-empty.
C2_SynonymsInOrderUntilFirstSuccess ==
    \A k \in 1..Len(net) :
        k >= 3 => /\ net[k].kind = "wiki"
                  /\ k - 2 <= Len(_synonyms)
                  /\ net[k].url = WIKI_PREFIX \o _synonyms[k - 2]
                  /\ net[k].nvalid = 0

\* C2 witness: the second synonym resolved the request and a third one was
\* left untried.
C2_Witness ==
    /\ pc = "done" /\ GotImageUrl
    /\ Len(net) = 4 /\ count = 2 /\ Len(_synonyms) >= 3

\* C3: the Result Selector runs only on a non-empty ResultSet: in the Resolved
\* state _valid_image_urls holds at least one url, and random.randint never
\* gets an empty range.
C3_SelectorOnlyOnNonEmpty ==
    /\ pc = "select" => Len(_valid_image_urls) >= 1
    /\ ret # "ValueError"

\* C3 witness: Resolved through try_synonyms returning True.
C3_Witness == pc = "select" /\ count >= 1 /\ Len(_valid_image_urls) >= 1

\* C4: a failed category-page fetch is absorbed like a page without images:
\* no error escapes the pipeline.
C4_FailedFetchAbsorbed == ret # "ConnectionError"

\* C5: a request without a word (absent or empty) is answered at once with the
\* failure sentinel: nothing is fetched, no word is set, no pipeline stage runs.
C5_MissingInputImmediate ==
    (pc # "idle" /\ ~Truthy(word)) =>
        /\ net = << >>
        /\ _word = << >> /\ _raw_image_urls = << >> /\ _valid_image_urls = << >>
        /\ pc = "done" => (ret = "json" /\ response = Sentinel)

\* C6: a request that ends without an image (Exhausted) gives the caller a
\* structured response carrying the sentinel of MissingInput; a request that
\* returns gives either an image url or that sentinel.
C6_ExhaustedGetsSentinel ==
    (Returned /\ Truthy(word)) =>
        /\ ret = "json"
        /\ response = Sentinel \/ GotImageUrl

\* C7: when the synonym-service call fails (transport, status, or a response
\* that is not the expected structure, even in one category only) the
\* SynonymList is empty and no synonym page is fetched.
C7_FailedSynonymCallYieldsNothing ==
    syn_error => /\ _synonyms = << >>
                 /\ \A k \in 1..Len(net) : net[k].kind = "wiki" => k = 1

\* C8: the Synonym Resolver is called at most once per request, only after the
\* primary attempt left the ResultSet empty, and for the caller's original word.
C8_SynonymResolverOnceForOriginalWord ==
    \A k \in 1..Len(net) :
        net[k].kind = "syn" =>
            /\ k = 2
            /\ net[1].kind = "wiki" /\ net[1].word = word
            /\ net[k].nvalid = 0
            /\ net[k].word = word
            /\ net[k].url = SYNONYM_PREFIX \o api_key \o word \o JSON_SUFFIX

\* C8 witness: the resolver was called and the working word has since become
\* a synonym.
C8_Witness ==
    /\ Returned /\ Truthy(word)
    /\ Len(net) >= 4 /\ net[2].kind = "syn"
    /\ _word # word /\ _word \in Range(_synonyms)

\* C9 as stated: for a RawLink with an HTTP(S) scheme, thumb/ and a qualifying
\* extension followed by "/", the Normalizer emits the link with only the
\* first thumb/ removed, cut at the first "/" at or after the extension's end.
\* (Stated here for the links where thumb/ comes before the extension, as in
\* the thumbnail urls the claim is about.)
C9_FirstThumbOnly ==
    pc = "normed" =>
        LET raw == _raw_image_urls[1]
            t   == ReplaceFirstOnly(raw, THUMB, << >>)
        IN  ThumbLink(raw) =>
                \A k \in 1..Len(_image_exts) :
                    (/\ FirstFrom(Occurrences(raw, THUMB), 0) < ExtStart(raw, _image_exts[k])
                     /\ Covered(t, _image_exts[k])) =>
                        Expected(t, _image_exts[k]) \in Range(_valid_image_urls)

\* C9 amended: for such a RawLink the Normalizer emits the link with every
\* occurrence of thumb/ removed (left to right, non-overlapping), cut at the
\* first "/" at or after the end of the extension's first occurrence, where
\* the extension qualifies in the stripped string.
C9_EveryThumbRemoved ==
    pc = "normed" =>
        LET raw == _raw_image_urls[1]
            t   == StripAll(raw, THUMB)
        IN  ThumbLink(raw) =>
                \A k \in 1..Len(_image_exts) :
                    Covered(t, _image_exts[k]) =>
                        Expected(t, _image_exts[k]) \in Range(_valid_image_urls)

\* C9 witness: a link holding thumb/ twice was normalized to its cut form.
C9_Witness ==
    /\ pc = "normed"
    /\ ThumbLink(_raw_image_urls[1])
    /\ Cardinality(Occurrences(_raw_image_urls[1], THUMB)) = 2
    /\ Covered(StripAll(_raw_image_urls[1], THUMB), _image_exts[1])
    /\ _valid_image_urls = << Expected(StripAll(_raw_image_urls[1], THUMB), _image_exts[1]) >>

\* C10: the Normalizer appends at most one url per RawLink, also when both
\* .jpg and .png qualify in it.
C10_AtMostOnePerRawLink ==
    pc = "normed" => Len(_valid_image_urls) <= Len(_raw_image_urls)

\* the extensions (by index in _image_exts) whose first occurrence in t starts
\* strictly before Len(t) - 5
QualifyingExts(t) ==
    {k \in 1..Len(_image_exts) :
        ExtStart(t, _image_exts[k]) >= 0 /\ ExtStart(t, _image_exts[k]) < Len(t) - 5}

HTTPS_SCHEME == <<"h", "t", "t", "p", "s", ":", "/", "/">>

\* t begins with the scheme of an http or https url
HasHttpScheme(t) ==
    \/ Len(t) >= Len(HTTP_SCHEME) /\ SubSeq(t, 1, Len(HTTP_SCHEME)) = HTTP_SCHEME
    \/ Len(t) >= Len(HTTPS_SCHEME) /\ SubSeq(t, 1, Len(HTTPS_SCHEME)) = HTTPS_SCHEME

\* C11: a RawLink whose qualifying extension match is followed by no "/" is
\* dropped: the Normalizer appends nothing for it.
C11_NoSeparatorDropped ==
    pc = "normed" =>
        LET t == StripAll(_raw_image_urls[1], THUMB)
        IN  (/\ QualifyingExts(t) # {}
             /\ \A k \in QualifyingExts(t) : CutPoint(t, _image_exts[k]) = -1)
                => _valid_image_urls = << >>

\* C12: a RawLink (the empty string included) that, once thumb/ is removed,
\* does not begin with the scheme of an http or https url (http:// or https://)
\* gets nothing appended.
C12_NoSchemeNothingAppended ==
    pc = "normed" =>
        (~HasHttpScheme(StripAll(_raw_image_urls[1], THUMB)) => _valid_image_urls = << >>)

\* C13 as stated: a RawLink in which some recognized extension's first
\* occurrence starts at or after Len - 5 of the thumb-stripped string gets
\* nothing appended. (Stated here for the links in which every extension that
\* starts before Len - 5 is followed by a "/".)
C13_NearEndExtensionDropsLink ==
    pc = "normed" =>
        LET t == StripAll(_raw_image_urls[1], THUMB)
        IN  (/\ \E k \in 1..Len(_image_exts) :
                    /\ ExtStart(t, _image_exts[k]) >= 0
                    /\ ExtStart(t, _image_exts[k]) >= Len(t) - 5
             /\ \A k \in QualifyingExts(t) : CutPoint(t, _image_exts[k]) >= 0)
                => _valid_image_urls = << >>

\* C13 amended: an extension whose first occurrence starts at or after Len - 5
\* of the thumb-stripped string contributes no entry: the link gets at most one
\* entry per extension that starts strictly before Len - 5, and nothing when
\* no recognized extension does.
C13_NearEndExtensionContributesNothing ==
    pc = "normed" =>
        LET t == StripAll(_raw_image_urls[1], THUMB)
        IN  Len(_valid_image_urls) <= Cardinality(QualifyingExts(t))

\* C13 witness: .jpg sits at the end of the link, .png qualifies and is
\* followed by "/", and the link got the one entry of .png.
C13_Witness ==
    /\ pc = "normed"
    /\ HasHttpScheme(StripAll(_raw_image_urls[1], THUMB))
    /\ ExtStart(StripAll(_raw_image_urls[1], THUMB), _image_exts[1])
          >= Len(StripAll(_raw_image_urls[1], THUMB)) - 5
    /\ QualifyingExts(StripAll(_raw_image_urls[1], THUMB)) = {2}
    /\ _valid_image_urls = << Expected(StripAll(_raw_image_urls[1], THUMB), _image_exts[2]) >>

RECURSIVE SrcsOf(_)
\* the src values of the img elements that have one, in document order
SrcsOf(imgs) ==
    IF imgs = << >> THEN << >>
    ELSE (IF Head(imgs).has_src THEN <<Head(imgs).src>> ELSE << >>) \o SrcsOf(Tail(imgs))

\* t is the tail of s
EndsWith(s, t) == Len(t) <= Len(s) /\ SubSeq(s, Len(s) - Len(t) + 1, Len(s)) = t

\* the requests of one kind that the request has issued so far
Fetches(kind) == {k \in 1..Len(net) : net[k].kind = kind}

\* C14: the Link Extractor never fails: an img element without src is skipped,
\* and the extractor adds, in document order, one RawLink per img element of
\* the fetched page that has a src.
C14_ExtractorSkipsMissingSrc ==
    /\ (pc = "done" /\ net # << >> /\ net[Len(net)].kind = "wiki") => ret # "KeyError"
    /\ EndsWith(_raw_image_urls, SrcsOf(_html_data))

\* C16: with every network call returning, a request for a word ends Resolved or
\* Exhausted (the handler returns), after at most 1 + |SynonymList| category
\* fetches and at most one thesaurus request.
C16_TerminalWithinFetchBudget ==
    (pc = "done" /\ Truthy(word) /\ ret # "ConnectionError") =>
        /\ ret \in {"json", "None"}
        /\ Cardinality(Fetches("wiki")) <= 1 + Len(_synonyms)
        /\ Cardinality(Fetches("syn")) <= 1

\* The fetch budget of C16 alone, for every request however it ends.
C16_FetchBudget ==
    /\ Cardinality(Fetches("wiki")) <= 1 + Len(_synonyms)
    /\ Cardinality(Fetches("syn")) <= 1
    /\ count <= Len(_synonyms)

\* C19: whenever the ResultSet is non-empty, each of its urls comes from a
\* RawLink of the page fetched last, which is the page of the working word and
\* was fetched while the ResultSet was still empty; links of the pages of
\* earlier words, though still in the RawLink list, contributed nothing.
C19_ResultSetFromCurrentPageOnly ==
    _valid_image_urls # << >> =>
        /\ net # << >>
        /\ net[Len(net)].kind = "wiki"
        /\ net[Len(net)].word = _word
        /\ net[Len(net)].nvalid = 0
        /\ \A u \in Range(_valid_image_urls) :
              \E l \in Range(SrcsOf(_html_data)) :
                 /\ HasHttpScheme(StripAll(l, THUMB))
                 /\ \E k \in 1..Len(_image_exts) :
                       /\ Covered(StripAll(l, THUMB), _image_exts[k])
                       /\ u = Expected(StripAll(l, THUMB), _image_exts[k])
        /\ Len(_valid_image_urls) <= Len(SrcsOf(_html_data))

\* C19 witness: a synonym resolved the request while the RawLink list still
\* held links of earlier pages.
C19_Witness ==
    /\ Returned /\ GotImageUrl
    /\ Len(net) >= 3
    /\ Len(_raw_image_urls) > Len(SrcsOf(_html_data))
    /\ _word \in Range(_synonyms)

\* C20: every category page is fetched from the url built from the working
\* word of that moment (the caller's word first, then the synonyms in turn),
\* never from a stale url or the constructor's placeholder; the thesaurus url
\* is built from the working word of that moment, the caller's word.
C20_UrlsFromWorkingWord ==
    \A k \in 1..Len(net) :
        /\ net[k].kind = "wiki" =>
              /\ net[k].url = WIKI_PREFIX \o net[k].word
              /\ net[k].url # WIKI_PREFIX \o JSON_SUFFIX
              /\ net[k].word = IF k = 1 THEN word ELSE _synonyms[k - 2]
        /\ net[k].kind = "syn" =>
              /\ net[k].url = SYNONYM_PREFIX \o api_key \o net[k].word \o JSON_SUFFIX
              /\ net[k].word = word

\* C20 witness: the primary page, the thesaurus and two synonym pages were
\* fetched, each for a different working word.
C20_Witness ==
    /\ Returned /\ Truthy(word)
    /\ Len(net) >= 4
    /\ net[1].word = word /\ net[2].kind = "syn"
    /\ net[3].word # net[4].word /\ net[3].word # word
    /\ net[4].url = WIKI_PREFIX \o _word

\* C18: the Normalizer run on its own output yields nothing: no url it emitted
\* is transformable again. (Stated here for the outputs in which every
\* extension that starts before Len - 5 is followed by a "/".)
C18_OutputNotTransformableAgain ==
    (/\ pc = "renormed"
     /\ \A l \in Range(_raw_image_urls) :
           \A k \in QualifyingExts(StripAll(l, THUMB)) :
              CutPoint(StripAll(l, THUMB), _image_exts[k]) >= 0)
        => _valid_image_urls = << >>

RECURSIVE SynsOf(_)
\* the syn lists of the word types that have one, concatenated in the order of
\* the response
SynsOf(cats) ==
    IF cats = << >> THEN << >>
    ELSE (IF Head(cats).has_syn THEN Head(cats).syn ELSE << >>) \o SynsOf(Tail(cats))

\* C15: for a well-formed thesaurus response the SynonymList is the
\* concatenation, in category order, of each category's synonym list; a
\* category whose synonym list is absent or empty contributes nothing and does
\* not keep later categories from contributing; antonyms never appear and
\* duplicates are kept.
C15_SynonymListIsConcatenation ==
    (pc = "synned" /\ syn_response.ok) => _synonyms = SynsOf(syn_response.cats)

A_JPG == <<"h", "t", "t", "p", "s", ":", "/", "/", "u", "/", "a", ".", "j", "p", "g">>

B_PNG == <<"h", "t", "t", "p", "s", ":", "/", "/", "u", "/", "b", ".", "p", "n", "g">>

\* what a call of respond leaves behind
Outcome(r) ==
    [ret |-> r.ret, response |-> r.response, raws |-> r._raw_image_urls,
     valid |-> r._valid_image_urls, synonyms |-> r._synonyms]

\* the outcome of a request for w that is handled alone, the web being that of
\* ConcPage and ConcThesaurus: car and van resolve on their own page; auto
\* resolves through its synonym car and bus is exhausted, unless flask_app.py
\* runs without its api_key, where both end at set_synonym_url
AloneOutcome(w) ==
    IF w \in {AUTO, BUS} /\ variant = "flask_app" /\ environ = None
    THEN [ret |-> "KeyError", response |-> [IMAGE_URL |-> ERROR, ERROR |-> None],
          raws |-> IF w = AUTO THEN <<STATIC_PNG>> ELSE << >>, valid |-> << >>,
          synonyms |-> << >>]
    ELSE IF w = AUTO
    THEN [ret |-> "json", response |-> [IMAGE_URL |-> A_JPG, ERROR |-> None],
          raws |-> <<STATIC_PNG, THUMB_JPG>>, valid |-> <<A_JPG>>, synonyms |-> <<CAR, VAN>>]
    ELSE IF w = CAR
    THEN [ret |-> "json", response |-> [IMAGE_URL |-> A_JPG, ERROR |-> None],
          raws |-> <<THUMB_JPG>>, valid |-> <<A_JPG>>, synonyms |-> << >>]
    ELSE IF w = VAN
    THEN [ret |-> "json", response |-> [IMAGE_URL |-> B_PNG, ERROR |-> None],
          raws |-> <<THUMB_PNG>>, valid |-> <<B_PNG>>, synonyms |-> << >>]
    ELSE [ret |-> IF variant = "flask_app" THEN "json" ELSE "None",
          response |-> IF variant = "flask_app"
                       THEN [IMAGE_URL |-> ERROR, ERROR |-> None]
                       ELSE [IMAGE_URL |-> None, ERROR |-> ERROR_TRY_AGAIN],
          raws |-> << >>, valid |-> << >>, synonyms |-> << >>]

\* C17: two requests handled at the same time share no mutable state: however
\* their steps interleave, each ends with the outcome it has when handled
\* alone, and a request starts with a fresh scraper that holds nothing of a
\* request that finished before it.
C17_RequestsDoNotInterfere ==
    \A r \in {LocalState, other} :
        /\ r.pc = "done" => Outcome(r) = AloneOutcome(r.word)
        /\ r.pc = "primary" =>
              /\ r._raw_image_urls = << >> /\ r._valid_image_urls = << >>
              /\ r._synonyms = << >> /\ r._html_data = << >> /\ r.net = << >>

\* C17 witness: a request for auto, resolved through a synonym, and a request
\* for van have both ended while the other was in flight.
C17_Witness ==
    /\ pc = "done" /\ word = AUTO /\ GotImageUrl /\ Len(net) = 3
    /\ other.pc = "done" /\ other.word = VAN /\ other.net # << >>

====
